---- MODULE Spec2Model ----
(***************************************************************************)
(* A model of src/src/main.rs (mod dom): the cursor primitives of Parser,  *)
(* the recursive-descent markup parser behind source(), the selector-list  *)
(* parser parse_selector, and the matching engine (matches, specificity,   *)
(* match_rule, matching_rules).                                            *)
(*                                                                         *)
(* Strings.  A Rust String is UTF-8.  `input` is modelled as its sequence  *)
(* of bytes: the first byte of a character is the character's name (a      *)
(* one-element TLA+ string such as "a", or "U+00A0"), and every further    *)
(* byte of a multi-byte character is the marker Cont.  `pos` is a byte     *)
(* offset, as in the source.  Strings the parser returns (tag names,       *)
(* attribute values) are sequences of characters.                          *)
(*                                                                         *)
(* Option<T> is modelled as a set with at most one element, which is what  *)
(* the source's `.iter()` on an Option enumerates.                         *)
(*                                                                         *)
(* A panic (a failed assert!, unwrap() on None, slicing a str off a        *)
(* character boundary) is modelled as pc = "panic": control never returns  *)
(* to the caller of source() and `result` is never assigned.               *)
(***************************************************************************)
EXTENDS Integers, Sequences, FiniteSets, TLC

VARIABLES
    input,      \* Parser.input, as bytes
    pos,        \* Parser.pos, a byte offset
    pc,         \* position of control
    cur_char,   \* the value the last consume_char call returned (as a set)
    stack,      \* markup parser: the open parse_element frames
    nodes,      \* markup parser: the `nodes` vector of the running parse_nodes
    result,     \* markup parser: what source() returned (as a set)
    selectors,  \* selector parser: the `selectors` vector / the rule's list
    parsed,     \* selector parser: `selectors` as pushed, before sort_by
    elem_data,  \* matching: the ElementData under test
    stylesheet, \* matching: the Stylesheet (a sequence of Rules)
    call        \* matching: the last call made and what it returned

vars == <<input, pos, pc, cur_char, stack, nodes, result, selectors, parsed,
          elem_data, stylesheet, call>>

----------------------------------------------------------------------------
(* Bounds *)

\* SpecCursor: inputs of at most this many characters.
MaxChars == 3
\* SpecMarkup: inputs made of at most this many fragments.
MaxFragments == 4
\* SpecSelector: selector lists with at most this many simple selectors.
MaxSelectors == 3
\* SpecMatch: stylesheets of at most this many rules.
MaxRules == 3

----------------------------------------------------------------------------
(* Characters and their UTF-8 encoding *)

\* A continuation byte of a multi-byte character.
Cont == "CONT"

NBSP == "U+00A0"     \* NO-BREAK SPACE: White_Space, two bytes
EACUTE == "U+00E9"   \* e with acute accent, two bytes
EURO == "U+20AC"     \* EURO SIGN, three bytes

\* char::len_utf8
len_utf8(c) ==
    IF c \in {NBSP, EACUTE} THEN 2
    ELSE IF c = EURO THEN 3
    ELSE 1

\* char::is_whitespace, on the characters the model uses
is_whitespace == {" ", "\t", "\n", NBSP}

\* The characters parse_tag_name accepts: 'a'..='z' | 'A'..='Z' | '0'..='9'
TagNameChars ==
    {"a", "b", "c", "d", "h", "i", "n", "p", "s", "v", "x", "y",
     "A", "D", "I", "V", "0", "1"}

\* Every character the model's inputs are made of.
AllChars ==
    TagNameChars \cup is_whitespace \cup
    {"<", ">", "/", "=", "\"", "'", "#", "*", ",", "{", ".", "-", "_", ";",
     EACUTE, EURO}

RECURSIVE ContBytes(_)
ContBytes(n) == IF n <= 0 THEN <<>> ELSE <<Cont>> \o ContBytes(n - 1)

\* The UTF-8 bytes of a sequence of characters (String::from).
RECURSIVE Encode(_)
Encode(chars) ==
    IF chars = <<>> THEN <<>>
    ELSE <<Head(chars)>> \o ContBytes(len_utf8(Head(chars)) - 1)
         \o Encode(Tail(chars))

\* str::is_char_boundary
is_char_boundary(s, p) ==
    \/ p = 0
    \/ p = Len(s)
    \/ (p < Len(s) /\ s[p + 1] # Cont)

\* Whether the slice self.input[self.pos..] can be taken at all: slicing a
\* str off a character boundary (or past its end) panics.
SliceOk(s, p) == p <= Len(s) /\ is_char_boundary(s, p)

\* The number of continuation bytes from index i on.
RECURSIVE ContRun(_, _)
ContRun(s, i) ==
    IF i <= Len(s) /\ s[i] = Cont THEN 1 + ContRun(s, i + 1) ELSE 0

\* The encoded length of the character that starts at byte offset p.
CharLenAt(s, p) == 1 + ContRun(s, p + 2)

----------------------------------------------------------------------------
(* Parser: the cursor primitives.  An operation that can panic returns a   *)
(* record with ok = FALSE.                                                 *)

Panic(p) == [ok |-> FALSE, pos |-> p, val |-> <<>>]
Ok(p, v) == [ok |-> TRUE, pos |-> p, val |-> v]

\* Parser::eof
eof(s, p) == p >= Len(s)

\* Parser::next_char panics unless a character starts at pos.
next_char_ok(s, p) == SliceOk(s, p) /\ p < Len(s)
next_char(s, p) == s[p + 1]

\* Parser::starts_with, for a prefix of one-byte characters.
starts_with(s, p, prefix) ==
    /\ p + Len(prefix) <= Len(s)
    /\ \A i \in 1..Len(prefix) : s[p + i] = prefix[i]

\* The offset consume_char adds to pos: the byte index of the second
\* character of the slice, or 1 when the slice holds one character only
\* (`iter.next().unwrap_or((1, ' '))`).
next_pos(s, p) ==
    IF p + CharLenAt(s, p) < Len(s) THEN CharLenAt(s, p) ELSE 1

\* Parser::consume_char: val is the character returned.
consume_char(s, p) ==
    IF ~next_char_ok(s, p) THEN Panic(p)
    ELSE Ok(p + next_pos(s, p), s[p + 1])

\* Parser::consume_while, with the test given as the set of characters it
\* accepts: val is the String it returns.
RECURSIVE consume_while(_, _, _)
consume_while(s, p, accept) ==
    IF eof(s, p) THEN Ok(p, <<>>)
    ELSE IF ~next_char_ok(s, p) THEN Panic(p)
    ELSE IF next_char(s, p) \notin accept THEN Ok(p, <<>>)
    ELSE LET c == consume_char(s, p)
             rest == consume_while(s, c.pos, accept)
         IN IF rest.ok THEN Ok(rest.pos, <<c.val>> \o rest.val)
            ELSE Panic(p)

\* Parser::consume_whitespace
consume_whitespace(s, p) == consume_while(s, p, is_whitespace)

\* Parser::parse_tag_name
parse_tag_name(s, p) == consume_while(s, p, TagNameChars)

----------------------------------------------------------------------------
(* Sequences of bounded length over a set *)

SeqsUpTo(S, n) == UNION {[1..k -> S] : k \in 0..n}

RECURSIVE Flatten(_)
Flatten(ss) == IF ss = <<>> THEN <<>> ELSE Head(ss) \o Flatten(Tail(ss))

Range(s) == {s[i] : i \in 1..Len(s)}

\* Option
None == {}
Some(v) == {v}

\* The value of a variable a specification does not use.
Unused == "unused"

----------------------------------------------------------------------------
(* SpecCursor: calls of consume_char and consume_whitespace on a Parser     *)

CursorChars == {"a", " ", EACUTE, NBSP, EURO}

CursorInit ==
    /\ input \in {Encode(cs) : cs \in SeqsUpTo(CursorChars, MaxChars)}
    /\ pos = 0
    /\ pc = "ready"
    /\ cur_char = None
    /\ stack = Unused /\ nodes = Unused /\ result = Unused
    /\ selectors = Unused /\ parsed = Unused
    /\ elem_data = Unused /\ stylesheet = Unused /\ call = Unused

CursorUnused ==
    UNCHANGED <<input, stack, nodes, result, selectors, parsed, elem_data,
                stylesheet, call>>

\* A call of consume_char when the input is not exhausted.
ConsumeChar ==
    /\ pc = "ready"
    /\ ~eof(input, pos)
    /\ LET c == consume_char(input, pos)
       IN IF c.ok
          THEN pos' = c.pos /\ cur_char' = Some(c.val) /\ pc' = "ready"
          ELSE pos' = pos /\ cur_char' = None /\ pc' = "panic"
    /\ CursorUnused

\* A call of consume_whitespace.
ConsumeWhitespace ==
    /\ pc = "ready"
    /\ LET w == consume_whitespace(input, pos)
       IN IF w.ok
          THEN pos' = w.pos /\ pc' = "ready"
          ELSE pos' = pos /\ pc' = "panic"
    /\ cur_char' = None
    /\ CursorUnused

CursorNext == ConsumeChar \/ ConsumeWhitespace

SpecCursor == CursorInit /\ [][CursorNext]_vars


\* C8 (as claimed): the cursor stays on character boundaries: after any
\* sequence of consume_char calls, pos is 0, the input's length, or the
\* start of a character.
C8_CursorOnCharBoundary == pc = "ready" => SliceOk(input, pos)

----------------------------------------------------------------------------
(* The document tree *)

\* fn text
text(data) ==
    [children |-> <<>>, node_type |-> [kind |-> "Text", data |-> data]]

\* fn elem
elem(name, attrs, children) ==
    [children |-> children,
     node_type |-> [kind |-> "Element", tag_name |-> name,
                    attributes |-> attrs]]

\* HashMap::new and HashMap::insert on an AttrMap
EmptyMap == <<>>
insert(m, k, v) == (k :> v) @@ m

----------------------------------------------------------------------------
(* Parser: the markup parser's straight-line pieces *)

\* Parser::parse_attr_value
parse_attr_value(s, p) ==
    LET open_quote == consume_char(s, p)
    IN IF ~open_quote.ok \/ open_quote.val \notin {"\"", "'"} THEN Panic(p)
       ELSE LET value == consume_while(s, open_quote.pos,
                                       AllChars \ {open_quote.val})
            IN IF ~value.ok THEN Panic(p)
               ELSE LET close == consume_char(s, value.pos)
                    IN IF ~close.ok \/ close.val # open_quote.val
                       THEN Panic(p)
                       ELSE Ok(close.pos, value.val)

\* Parser::parse_attr: val is the pair (name, value)
parse_attr(s, p) ==
    LET name == parse_tag_name(s, p)
    IN IF ~name.ok THEN Panic(p)
       ELSE LET eq == consume_char(s, name.pos)
            IN IF ~eq.ok \/ eq.val # "=" THEN Panic(p)
               ELSE LET value == parse_attr_value(s, eq.pos)
                    IN IF ~value.ok THEN Panic(p)
                       ELSE Ok(value.pos, <<name.val, value.val>>)

\* A parse_element that does not compare the closing name with the opening
\* one.
closing_name_unchecked(name, tag_name) == TRUE

\* `assert!(self.parse_tag_name() == tag_name)`
closing_name_ok(name, tag_name) == name = tag_name

\* Parser::parse_element after the recursive parse_nodes call: the four
\* asserts on the closing sequence.
parse_element_close(s, p, tag_name) ==
    LET lt == consume_char(s, p)
    IN IF ~lt.ok \/ lt.val # "<" THEN Panic(p)
       ELSE LET slash == consume_char(s, lt.pos)
            IN IF ~slash.ok \/ slash.val # "/" THEN Panic(p)
               ELSE LET name == parse_tag_name(s, slash.pos)
                    IN IF ~name.ok \/ ~closing_name_ok(name.val, tag_name)
                       THEN Panic(p)
                       ELSE LET gt == consume_char(s, name.pos)
                            IN IF ~gt.ok \/ gt.val # ">" THEN Panic(p)
                               ELSE Ok(gt.pos, name.val)

\* Parser::parse_text: val is the Text node
parse_text(s, p) ==
    LET data == consume_while(s, p, AllChars \ {"<"})
    IN IF data.ok THEN Ok(data.pos, text(data.val)) ELSE Panic(p)

\* The arms of the match in Parser::parse_node.  Its only arm is '<': no arm
\* calls parse_text, which nothing in main.rs calls.  A character with no
\* arm yields no Node; ParseNodes treats it as an abort of the parse.
parse_node_arm(c) == IF c = "<" THEN "parse_element" ELSE "no_arm"

\* A source() that unwraps the first node whenever there is one.
source_return_first(ns) ==
    IF Len(ns) >= 1 THEN ns[1]
    ELSE elem(<<"h", "t", "m", "l">>, <<>>, ns)

\* The tail of fn source: what it returns for the parsed top-level nodes.
source_return(ns) ==
    IF Len(ns) = 1 THEN ns[1]
    ELSE elem(<<"h", "t", "m", "l">>, EmptyMap, ns)


----------------------------------------------------------------------------
(* SpecMarkup: source(input), one action per stretch of straight-line code *)
(* between the calls and returns of the mutually recursive parse_nodes and *)
(* parse_element.  `stack` holds one frame per parse_element call that is  *)
(* waiting for its children: the `nodes` vector of the parse_nodes call    *)
(* that made it, and its own tag_name and attrs.                           *)

FragOpenA == <<"<", "a", ">">>
FragCloseA == <<"<", "/", "a", ">">>
FragCloseB == <<"<", "/", "b", ">">>
FragOpenB == <<"<", "b">>
FragAttr == <<" ", "i", "=", "\"", "x", "\"">>
FragGt == <<">">>
FragText == <<"h", "i">>
FragSpace == <<" ">>
FragNbsp == <<NBSP>>

Fragments ==
    {FragOpenA, FragCloseA, FragCloseB, FragOpenB, FragAttr, FragGt,
     FragText, FragSpace, FragNbsp}

MarkupInputs ==
    {Encode(Flatten(fs)) : fs \in SeqsUpTo(Fragments, MaxFragments)}

MarkupInit ==
    /\ input \in MarkupInputs
    /\ pos = 0
    /\ pc = "parse_nodes"
    /\ stack = <<>>
    /\ nodes = <<>>
    /\ result = None
    /\ cur_char = Unused /\ selectors = Unused /\ parsed = Unused
    /\ elem_data = Unused /\ stylesheet = Unused /\ call = Unused

MarkupUnused ==
    UNCHANGED <<input, cur_char, selectors, parsed, elem_data, stylesheet,
                call>>

\* A panic inside the code of action `at`: the parser's state is left as it
\* was when the action began, and nothing runs any more.
MarkupPanic(at) ==
    /\ pc' = at
    /\ UNCHANGED <<pos, stack, nodes, result>>

Panics ==
    {"panic", "panic_parse_nodes", "panic_parse_element",
     "panic_parse_attributes", "panic_parse_element_close"}

\* Parser::parse_nodes: one turn of its loop, up to the call of
\* parse_element or the return of `nodes`.
ParseNodes ==
    /\ pc = "parse_nodes"
    /\ LET ws == consume_whitespace(input, pos)
       IN IF ~ws.ok THEN MarkupPanic("panic_parse_nodes")
          ELSE IF eof(input, ws.pos) \/ starts_with(input, ws.pos, <<"<", "/">>)
          THEN \* break; return nodes
               /\ pos' = ws.pos
               /\ pc' = IF stack = <<>> THEN "source" ELSE "parse_element_close"
               /\ UNCHANGED <<stack, nodes, result>>
          ELSE \* nodes.push(self.parse_node())
               IF ~next_char_ok(input, ws.pos) THEN MarkupPanic("panic_parse_nodes")
               ELSE IF parse_node_arm(next_char(input, ws.pos)) = "parse_element"
               THEN /\ pos' = ws.pos
                    /\ pc' = "parse_element"
                    /\ UNCHANGED <<stack, nodes, result>>
               ELSE MarkupPanic("panic_parse_nodes")
    /\ MarkupUnused

\* Parser::parse_element, from its entry to its call of parse_attributes:
\* the frame of this parse_element call is pushed.
ParseElementTag ==
    /\ pc = "parse_element"
    /\ LET lt == consume_char(input, pos)
           name == parse_tag_name(input, lt.pos)
       IN IF ~lt.ok \/ lt.val # "<" THEN MarkupPanic("panic_parse_element")
          ELSE IF ~name.ok THEN MarkupPanic("panic_parse_element")
          ELSE /\ pos' = name.pos
               /\ stack' = Append(stack, [nodes |-> nodes,
                                          tag_name |-> name.val,
                                          attrs |-> EmptyMap])
               /\ pc' = "parse_attributes"
               /\ UNCHANGED <<nodes, result>>
    /\ MarkupUnused

\* Parser::parse_attributes: one turn of its loop.  On `break` it returns
\* to parse_element, which consumes the '>' and calls parse_nodes.
ParseAttributes ==
    /\ pc = "parse_attributes"
    /\ LET ws == consume_whitespace(input, pos)
           frame == stack[Len(stack)]
       IN IF ~ws.ok THEN MarkupPanic("panic_parse_attributes")
          ELSE IF ~next_char_ok(input, ws.pos) THEN MarkupPanic("panic_parse_attributes")
          ELSE IF next_char(input, ws.pos) = ">"
          THEN LET gt == consume_char(input, ws.pos)
               IN /\ pos' = gt.pos
                  /\ nodes' = <<>>
                  /\ pc' = "parse_nodes"
                  /\ UNCHANGED <<stack, result>>
          ELSE LET a == parse_attr(input, ws.pos)
               IN IF ~a.ok THEN MarkupPanic("panic_parse_attributes")
                  ELSE /\ pos' = a.pos
                       /\ stack' = [stack EXCEPT ![Len(stack)].attrs =
                                        insert(@, a.val[1], a.val[2])]
                       /\ pc' = "parse_attributes"
                       /\ UNCHANGED <<nodes, result>>
    /\ MarkupUnused

\* Parser::parse_element, from the return of parse_nodes to its own return,
\* and the push of the element it returns by the parse_nodes that called it.
ParseElementClose ==
    /\ pc = "parse_element_close"
    /\ LET frame == stack[Len(stack)]
           close == parse_element_close(input, pos, frame.tag_name)
       IN IF ~close.ok THEN MarkupPanic("panic_parse_element_close")
          ELSE /\ pos' = close.pos
               /\ nodes' = Append(frame.nodes,
                                  elem(frame.tag_name, frame.attrs, nodes))
               /\ stack' = SubSeq(stack, 1, Len(stack) - 1)
               /\ pc' = "parse_nodes"
               /\ UNCHANGED result
    /\ MarkupUnused

\* fn source, after the top-level parse_nodes has returned.
Source ==
    /\ pc = "source"
    /\ result' = Some(source_return(nodes))
    /\ pc' = "done"
    /\ UNCHANGED <<pos, stack, nodes>>
    /\ MarkupUnused

MarkupNext ==
    \/ ParseNodes
    \/ ParseElementTag
    \/ ParseAttributes
    \/ ParseElementClose
    \/ Source

SpecMarkup == MarkupInit /\ [][MarkupNext]_vars


----------------------------------------------------------------------------
(* Claims checked under SpecMarkup *)

HtmlName == <<"h", "t", "m", "l">>

\* C1: when the top-level parse_nodes call has returned, source() returns
\* the parsed node itself if there is exactly one, and otherwise one
\* Element named "html" with no attributes whose children are exactly the
\* parsed nodes, in order.
C1_SourcePolicy ==
    pc = "done" =>
        /\ Len(nodes) = 1 => result = {nodes[1]}
        /\ Len(nodes) # 1 =>
               \E r \in result :
                   /\ result = {r}
                   /\ r.node_type.kind = "Element"
                   /\ r.node_type.tag_name = HtmlName
                   /\ DOMAIN r.node_type.attributes = {}
                   /\ r.children = nodes

\* source() has wrapped two or more top-level nodes.
C1_Witness == pc = "done" /\ Len(nodes) >= 2 /\ result # None

\* The name the closing sequence at the cursor gives, after its "</".
ClosingNameAt(s, p) == parse_tag_name(s, p + 2).val

\* parse_element has parsed the children of an opening tag and the closing
\* sequence at the cursor names another tag.
C2_Mismatch(at) ==
    /\ pc = at
    /\ stack # <<>>
    /\ starts_with(input, pos, <<"<", "/">>)
    /\ ClosingNameAt(input, pos) # stack[Len(stack)].tag_name

\* C2: a closing tag that names another tag than the one parse_element
\* opened aborts the parse: the step panics, and once panicked the parser
\* never runs again and source() returns nothing.
C2_MismatchedCloseFatal ==
    [][/\ C2_Mismatch("parse_element_close")
           => (pc' = "panic_parse_element_close" /\ result' = None)
       /\ pc \in Panics => (pc' = pc /\ result' = None)]_vars

\* The parse has panicked in parse_element on a mismatched closing name.
C2_Witness == C2_Mismatch("panic_parse_element_close") /\ result = None

\* C3 (as claimed): source() never returns a tree while part of the input
\* is unconsumed; a closing tag where no element is open aborts the parse.
C3_UnmatchedCloseFatal == pc = "done" => eof(input, pos)

\* parse_nodes is about to parse a node that does not start with '<'.
C7_AtText ==
    /\ pc = "parse_nodes"
    /\ LET ws == consume_whitespace(input, pos)
       IN /\ ws.ok
          /\ ~eof(input, ws.pos)
          /\ next_char(input, ws.pos) # "<"
          /\ parse_text(input, ws.pos).ok

\* C7 (as claimed): a node that does not start with '<' is parsed by
\* parse_text: one Text node holding the characters up to the next '<' or
\* the end of the input is pushed, and the cursor stops there.
C7_TextDispatch ==
    [][C7_AtText =>
          LET t == parse_text(input, consume_whitespace(input, pos).pos)
          IN nodes' = Append(nodes, t.val) /\ pos' = t.pos]_vars


----------------------------------------------------------------------------
(* The matching engine *)

\* Selector::Simple
Simple(tag_name, id, class) ==
    [kind |-> "Simple",
     simple |-> [tag_name |-> tag_name, id |-> id, class |-> class]]

\* struct Rule
Rule(sels, decls) == [selectors |-> sels, declarations |-> decls]

\* struct ElementData
ElementData(tag_name, attributes) ==
    [tag_name |-> tag_name, attributes |-> attributes]

AttrId == <<"i", "d">>
AttrClass == <<"c", "l", "a", "s", "s">>

\* Selector::specificity
specificity(selector) ==
    LET simple == selector.simple
        a == Cardinality(simple.id)
        b == Len(simple.class)
        c == Cardinality(simple.tag_name)
    IN <<a, b, c>>

\* An ordering of specificities by the sum of their components.
cmp_by_sum(x, y) ==
    IF x[1] + x[2] + x[3] < y[1] + y[2] + y[3] THEN "Less"
    ELSE IF x[1] + x[2] + x[3] > y[1] + y[2] + y[3] THEN "Greater"
    ELSE "Equal"

\* Ord::cmp on Specificity = (usize, usize, usize): the standard library
\* orders tuples by their first differing component.
cmp(x, y) ==
    IF x[1] # y[1] THEN (IF x[1] < y[1] THEN "Less" ELSE "Greater")
    ELSE IF x[2] # y[2] THEN (IF x[2] < y[2] THEN "Less" ELSE "Greater")
    ELSE IF x[3] # y[3] THEN (IF x[3] < y[3] THEN "Less" ELSE "Greater")
    ELSE "Equal"

\* A closure that orders the selectors by ascending specificity.
sort_closure_ascending(a, b) == cmp(specificity(a), specificity(b))

\* The closure parse_selector hands to sort_by:
\* |a, b| b.specificity().cmp(&a.specificity())
sort_closure(a, b) == cmp(specificity(b), specificity(a))

\* Where a stable sort puts x into the sorted sequence s: before the first
\* element the closure orders after x.
RECURSIVE stable_insert(_, _)
stable_insert(s, x) ==
    IF s = <<>> THEN <<x>>
    ELSE IF sort_closure(Head(s), x) = "Greater" THEN <<x>> \o s
    ELSE <<Head(s)>> \o stable_insert(Tail(s), x)

\* selectors.sort_by(sort_closure): slice::sort_by is a stable sort.
RECURSIVE sort_by(_)
sort_by(s) ==
    IF s = <<>> THEN <<>>
    ELSE stable_insert(sort_by(SubSeq(s, 1, Len(s) - 1)), s[Len(s)])

\* ElementData::id
id(elem_) ==
    IF AttrId \in DOMAIN elem_.attributes
    THEN Some(elem_.attributes[AttrId])
    ELSE None

\* str::split(' '): the pieces between the occurrences of sep, empty pieces
\* included.
RECURSIVE split(_, _)
split(s, sep) ==
    IF \A i \in 1..Len(s) : s[i] # sep THEN <<s>>
    ELSE LET i == CHOOSE k \in 1..Len(s) :
                      s[k] = sep /\ \A j \in 1..(k - 1) : s[j] # sep
         IN <<SubSeq(s, 1, i - 1)>> \o split(SubSeq(s, i + 1, Len(s)), sep)

\* ElementData::classes
classes(elem_) ==
    IF AttrClass \in DOMAIN elem_.attributes
    THEN Range(split(elem_.attributes[AttrClass], " "))
    ELSE {}

\* A matches_simple_selector that lets an element without an id attribute
\* pass the id constraint.
matches_simple_selector_lax_id(elem_, selector) ==
    IF \E name \in selector.tag_name : elem_.tag_name # name THEN FALSE
    ELSE IF \E i \in selector.id : id(elem_) # None /\ id(elem_) # Some(i)
    THEN FALSE
    ELSE IF \E k \in 1..Len(selector.class) :
                selector.class[k] \notin classes(elem_) THEN FALSE
    ELSE TRUE

\* fn matches_simple_selector
matches_simple_selector(elem_, selector) ==
    IF \E name \in selector.tag_name : elem_.tag_name # name THEN FALSE
    ELSE IF \E i \in selector.id : id(elem_) # Some(i) THEN FALSE
    ELSE LET elem_classes == classes(elem_)
         IN IF \E k \in 1..Len(selector.class) :
                    selector.class[k] \notin elem_classes THEN FALSE
            ELSE TRUE

\* fn matches
matches(elem_, selector) ==
    CASE selector.kind = "Simple" ->
        matches_simple_selector(elem_, selector.simple)

\* Iterator::find on rule.selectors.iter(): the first selector that matches
\* elem, if any.
RECURSIVE find(_, _)
find(elem_, sels) ==
    IF sels = <<>> THEN None
    ELSE IF matches(elem_, Head(sels)) THEN Some(Head(sels))
    ELSE find(elem_, Tail(sels))

\* A match_rule that asks every selector of the rule to match.
match_rule_all(elem_, rule) ==
    IF rule.selectors # <<>>
       /\ \A k \in 1..Len(rule.selectors) : matches(elem_, rule.selectors[k])
    THEN Some(<<specificity(rule.selectors[1]), rule>>)
    ELSE None

\* fn match_rule: an Option of (Specificity, &Rule)
match_rule(elem_, rule) ==
    {<<specificity(selector), rule>> : selector \in find(elem_, rule.selectors)}

\* fn matching_rules, over the rules from index i on.  The &Rule of an entry
\* is modelled as the index of the rule in stylesheet.rules.
RECURSIVE matching_rules_from(_, _, _)
matching_rules_from(elem_, rules, i) ==
    IF i > Len(rules) THEN <<>>
    ELSE LET m == match_rule(elem_, rules[i])
         IN (IF m = None THEN <<>>
             ELSE <<[specificity |-> (CHOOSE e \in m : TRUE)[1], rule |-> i]>>)
            \o matching_rules_from(elem_, rules, i + 1)

\* fn matching_rules
matching_rules(elem_, sheet) == matching_rules_from(elem_, sheet.rules, 1)


----------------------------------------------------------------------------
(* Parser: the selector-list parser *)

\* valid_identifier_char and Parser::parse_identifier are called by
\* parse_simple_selector and defined nowhere in main.rs.  They are modelled
\* as the specification words them: an identifier is a run of identifier
\* characters (alphanumerics, '-' and '_').
IdentifierChars == TagNameChars \cup {"-", "_"}
valid_identifier_char(c) == c \in IdentifierChars
parse_identifier(s, p) == consume_while(s, p, IdentifierChars)

\* Parser::parse_simple_selector, from the state of its loop: val is the
\* SimpleSelector.
RECURSIVE parse_simple_selector_loop(_, _, _)
parse_simple_selector_loop(s, p, selector) ==
    IF eof(s, p) THEN Ok(p, selector)
    ELSE IF ~next_char_ok(s, p) THEN Panic(p)
    ELSE IF next_char(s, p) = "#"
    THEN LET ident == parse_identifier(s, consume_char(s, p).pos)
         IN IF ~ident.ok THEN Panic(p)
            ELSE parse_simple_selector_loop(s, ident.pos,
                     [selector EXCEPT !.id = Some(ident.val)])
    ELSE IF next_char(s, p) = "*"
    THEN parse_simple_selector_loop(s, consume_char(s, p).pos, selector)
    ELSE IF valid_identifier_char(next_char(s, p))
    THEN LET ident == parse_identifier(s, p)
         IN IF ~ident.ok THEN Panic(p)
            ELSE parse_simple_selector_loop(s, ident.pos,
                     [selector EXCEPT !.tag_name = Some(ident.val)])
    ELSE Ok(p, selector)

\* Parser::parse_simple_selector
parse_simple_selector(s, p) ==
    parse_simple_selector_loop(s, p,
        [tag_name |-> None, id |-> None, class |-> <<>>])

----------------------------------------------------------------------------
(* SpecSelector: parse_selector on a selector list, then match_rule of the *)
(* rule that holds the returned list against an element.                   *)

Sel_a == <<"a">>
Sel_b == <<"b">>
Sel_id == <<"#", "x">>
Sel_a_id == <<"a", "#", "x">>
Sel_star == <<"*">>

SelectorTexts == {<<>>, Sel_a, Sel_b, Sel_id, Sel_a_id, Sel_star}
Separators == {<<",">>, <<",", " ">>}
Terminators == {<<"{">>, <<" ", "{">>, <<>>, <<".", "c", "{">>}

RECURSIVE Join(_, _)
Join(ss, sep) ==
    IF ss = <<>> THEN <<>>
    ELSE IF Len(ss) = 1 THEN ss[1]
    ELSE Head(ss) \o sep \o Join(Tail(ss), sep)

SelectorInputs ==
    {Encode(Join(ts, sep) \o term) :
        ts \in SeqsUpTo(SelectorTexts, MaxSelectors),
        sep \in Separators, term \in Terminators}

SelectorElements ==
    {ElementData(t, a) :
        t \in {<<"a">>, <<"b">>},
        a \in {EmptyMap, AttrId :> <<"x">>, AttrId :> <<"y">>}}

SelectorInit ==
    /\ input \in SelectorInputs
    /\ pos = 0
    /\ pc = "parse_selector"
    /\ selectors = <<>>
    /\ parsed = <<>>
    /\ elem_data = None
    /\ call = None
    /\ cur_char = Unused /\ stack = Unused /\ nodes = Unused
    /\ result = Unused /\ stylesheet = Unused

SelectorUnused == UNCHANGED <<input, cur_char, stack, nodes, result, stylesheet>>

SelectorPanic ==
    /\ pc' = "panic"
    /\ UNCHANGED <<pos, selectors, parsed, elem_data, call>>

\* Parser::parse_selector: one turn of its loop; on `break`, the sort_by
\* and the return of `selectors`.
ParseSelector ==
    /\ pc = "parse_selector"
    /\ LET simple == parse_simple_selector(input, pos)
           pushed == Append(selectors, [kind |-> "Simple", simple |-> simple.val])
           ws == consume_whitespace(input, simple.pos)
       IN IF ~simple.ok THEN SelectorPanic
          ELSE IF ~ws.ok \/ ~next_char_ok(input, ws.pos) THEN SelectorPanic
          ELSE IF next_char(input, ws.pos) = ","
          THEN LET ws2 == consume_whitespace(input,
                              consume_char(input, ws.pos).pos)
               IN IF ~ws2.ok THEN SelectorPanic
                  ELSE /\ pos' = ws2.pos
                       /\ selectors' = pushed
                       /\ parsed' = pushed
                       /\ pc' = "parse_selector"
                       /\ UNCHANGED <<elem_data, call>>
          ELSE IF next_char(input, ws.pos) = "{"
          THEN /\ pos' = ws.pos
               /\ parsed' = pushed
               /\ selectors' = sort_by(pushed)
               /\ pc' = "returned"
               /\ UNCHANGED <<elem_data, call>>
          ELSE SelectorPanic
    /\ SelectorUnused

\* match_rule(elem, rule) for an element and the Rule whose selectors are
\* the list parse_selector returned.
MatchRule ==
    /\ pc = "returned"
    /\ \E e \in SelectorElements :
          /\ elem_data' = Some(e)
          /\ call' = Some([fn |-> "match_rule",
                           ret |-> match_rule(e, Rule(selectors, <<>>))])
    /\ pc' = "matched"
    /\ UNCHANGED <<pos, selectors, parsed>>
    /\ SelectorUnused

SelectorNext == ParseSelector \/ MatchRule

SpecSelector == SelectorInit /\ [][SelectorNext]_vars


----------------------------------------------------------------------------
(* Claims checked under SpecSelector *)

\* x is at least y in the lexicographic order of triples.
LexGeq(x, y) ==
    \/ x[1] > y[1]
    \/ x[1] = y[1] /\ x[2] > y[2]
    \/ x[1] = y[1] /\ x[2] = y[2] /\ x[3] >= y[3]

Occurrences(s, x) == Cardinality({i \in 1..Len(s) : s[i] = x})

IsPermutation(s, t) ==
    /\ Len(s) = Len(t)
    /\ \A i \in 1..Len(s) : Occurrences(s, s[i]) = Occurrences(t, s[i])

\* The indices of the selectors of the returned list that match e.
MatchingIndices(e) ==
    {k \in 1..Len(selectors) : matches(e, selectors[k])}

\* C6: parse_selector returns a permutation of the selectors it parsed in
\* which specificity never increases along the list; so match_rule on a rule
\* holding that list reports the specificity of the first matching selector,
\* which is the greatest specificity among the selectors that match.
C6_BestSpecificity ==
    /\ pc \in {"returned", "matched"} =>
           /\ IsPermutation(selectors, parsed)
           /\ \A i, j \in 1..Len(selectors) :
                  i < j => LexGeq(specificity(selectors[i]),
                                  specificity(selectors[j]))
    /\ pc = "matched" =>
           \A e \in elem_data, c \in call :
               LET M == MatchingIndices(e)
               IN IF M = {} THEN c.ret = None
                  ELSE \E r \in c.ret :
                         /\ c.ret = {r}
                         /\ r[2] = Rule(selectors, <<>>)
                         /\ \E first \in M :
                               /\ \A k \in M : first <= k
                               /\ r[1] = specificity(selectors[first])
                         /\ \A k \in M :
                               LexGeq(r[1], specificity(selectors[k]))

\* match_rule has answered for a list that sort_by reordered and in which
\* two selectors of different specificity match the element.
C6_Witness ==
    /\ pc = "matched"
    /\ selectors # parsed
    /\ \E e \in elem_data :
          \E i, j \in MatchingIndices(e) :
              specificity(selectors[i]) # specificity(selectors[j])


----------------------------------------------------------------------------
(* SpecMatch: single calls of the matching engine's functions on elements, *)
(* selectors and stylesheets built directly (the types are plain data).    *)

Div == <<"d", "i", "v">>
DivUpper == <<"D", "I", "V">>
Span == <<"s", "p", "a", "n">>
Class_a == <<"a">>
Class_b == <<"b">>
Class_c == <<"c">>

\* An AttrMap holding an id and a class attribute, each optional.
Attrs(id_, class_) ==
    [k \in {AttrId : v \in id_} \cup {AttrClass : v \in class_} |->
        IF k = AttrId THEN CHOOSE v \in id_ : TRUE
        ELSE CHOOSE v \in class_ : TRUE]

ClassValues ==
    {<<>>, <<"a">>, <<"a", " ", "b">>, <<"a", "\t", "b">>,
     <<"a", " ", " ", "b">>}

MatchElements ==
    {ElementData(t, Attrs(i, c)) :
        t \in {Div, DivUpper, Span},
        i \in {None, Some(<<"x">>), Some(<<"y">>)},
        c \in {None} \cup {Some(v) : v \in ClassValues}}

MatchSelectors ==
    {Simple(t, i, c) :
        t \in {None, Some(Div), Some(Span)},
        i \in {None, Some(<<"x">>), Some(<<"y">>)},
        c \in {<<>>, <<Class_a>>, <<Class_a, Class_b>>, <<Class_c>>}}

SelAny == Simple(None, None, <<>>)
SelDiv == Simple(Some(Div), None, <<>>)
SelSpan == Simple(Some(Span), None, <<>>)
SelX == Simple(None, Some(<<"x">>), <<>>)
SelA == Simple(None, None, <<Class_a>>)
SelAB == Simple(None, None, <<Class_a, Class_b>>)
SelDivXAB == Simple(Some(Div), Some(<<"x">>), <<Class_a, Class_b>>)
SelSpanY == Simple(Some(Span), Some(<<"y">>), <<>>)

StyleRules ==
    {Rule(<<SelA>>, <<>>), Rule(<<SelX>>, <<>>), Rule(<<SelDiv>>, <<>>),
     Rule(<<SelAny>>, <<>>), Rule(<<SelX, SelDiv>>, <<>>),
     Rule(<<SelDiv, SelX>>, <<>>), Rule(<<SelDivXAB, SelAB, SelSpan>>, <<>>),
     Rule(<<SelSpanY>>, <<>>)}

Stylesheets == {[rules |-> rs] : rs \in SeqsUpTo(StyleRules, MaxRules)}

MatchInit ==
    /\ pc = "start"
    /\ elem_data = None
    /\ stylesheet = None
    /\ call = None
    /\ input = Unused /\ pos = Unused /\ cur_char = Unused
    /\ stack = Unused /\ nodes = Unused /\ result = Unused
    /\ selectors = Unused /\ parsed = Unused

MatchUnused ==
    UNCHANGED <<input, pos, cur_char, stack, nodes, result, selectors, parsed>>

\* matches(elem, selector)
CallMatches ==
    /\ pc = "start"
    /\ \E e \in MatchElements, sel \in MatchSelectors :
          /\ elem_data' = Some(e)
          /\ call' = Some([fn |-> "matches", selector |-> sel,
                           ret |-> matches(e, sel)])
    /\ pc' = "returned"
    /\ UNCHANGED stylesheet
    /\ MatchUnused

\* elem.classes()
CallClasses ==
    /\ pc = "start"
    /\ \E e \in MatchElements :
          /\ elem_data' = Some(e)
          /\ call' = Some([fn |-> "classes", ret |-> classes(e)])
    /\ pc' = "returned"
    /\ UNCHANGED stylesheet
    /\ MatchUnused

\* selector.specificity()
CallSpecificity ==
    /\ pc = "start"
    /\ \E sel \in MatchSelectors :
          call' = Some([fn |-> "specificity", selector |-> sel,
                        ret |-> specificity(sel)])
    /\ pc' = "returned"
    /\ UNCHANGED <<elem_data, stylesheet>>
    /\ MatchUnused

\* The comparison sort_by makes of two selectors a and b.
CallSortClosure ==
    /\ pc = "start"
    /\ \E a, b \in MatchSelectors :
          call' = Some([fn |-> "sort_closure", a |-> a, b |-> b,
                        ret |-> sort_closure(a, b)])
    /\ pc' = "returned"
    /\ UNCHANGED <<elem_data, stylesheet>>
    /\ MatchUnused

\* matching_rules(elem, stylesheet)
CallMatchingRules ==
    /\ pc = "start"
    /\ \E e \in MatchElements, sheet \in Stylesheets :
          /\ elem_data' = Some(e)
          /\ stylesheet' = Some(sheet)
          /\ call' = Some([fn |-> "matching_rules",
                           ret |-> matching_rules(e, sheet)])
    /\ pc' = "returned"
    /\ MatchUnused

MatchNext ==
    \/ CallMatches
    \/ CallClasses
    \/ CallSpecificity
    \/ CallSortClosure
    \/ CallMatchingRules

SpecMatch == MatchInit /\ [][MatchNext]_vars


----------------------------------------------------------------------------
(* Claims checked under SpecMatch *)

\* C4: matches(elem, Simple selector) is true exactly when the selector has
\* no tag name or elem's tag name equals it, the selector has no id or elem
\* has an id attribute equal to it, and every class of the selector is in
\* elem's class set (the set ElementData::classes returns).
C4_MatchesExactly ==
    \A c \in call, e \in elem_data :
        c.fn = "matches" =>
            LET sel == c.selector.simple
            IN c.ret <=>
                 /\ sel.tag_name = None \/ sel.tag_name = {e.tag_name}
                 /\ \/ sel.id = None
                    \/ /\ AttrId \in DOMAIN e.attributes
                       /\ sel.id = {e.attributes[AttrId]}
                 /\ \A k \in 1..Len(sel.class) : sel.class[k] \in classes(e)

\* matches has accepted an element for a selector with a tag name, an id
\* and two classes.
C4_Witness ==
    \E c \in call :
        /\ c.fn = "matches"
        /\ c.selector = SelDivXAB
        /\ c.ret

\* C5: specificity is the triple (1 if the selector has an id else 0, the
\* number of its classes, 1 if it has a tag name else 0), and two
\* specificities are ordered by the first component in which they differ,
\* not by their sum: #x is above .a.b, which is above div, which is above
\* the selector with no constraints.
C5_SpecificityLexicographic ==
    \A c \in call :
        /\ c.fn = "specificity" =>
               c.ret = <<IF c.selector.simple.id = None THEN 0 ELSE 1,
                         Len(c.selector.simple.class),
                         IF c.selector.simple.tag_name = None THEN 0 ELSE 1>>
        /\ c.fn = "sort_closure" =>
               LET sa == specificity(c.a)
                   sb == specificity(c.b)
               IN /\ c.ret = "Greater" <=> (LexGeq(sb, sa) /\ sb # sa)
                  /\ c.ret = "Less" <=> (LexGeq(sa, sb) /\ sb # sa)
                  /\ c.ret = "Equal" <=> sa = sb
                  /\ (c.a = SelAB /\ c.b = SelX) => c.ret = "Greater"
                  /\ (c.a = SelDiv /\ c.b = SelAB) => c.ret = "Greater"
                  /\ (c.a = SelAny /\ c.b = SelDiv) => c.ret = "Greater"

\* The selectors .a.b and #x have been compared: #x is the greater.
C5_Witness ==
    \E c \in call :
        /\ c.fn = "sort_closure"
        /\ c.a = SelAB /\ c.b = SelX
        /\ specificity(c.a) = <<0, 2, 0>> /\ specificity(c.b) = <<1, 0, 0>>
        /\ c.ret = "Greater"

\* C9 (as claimed): classes() is the set of maximal runs of non-whitespace
\* characters of the class attribute, so it holds neither the empty string
\* nor a name with whitespace in it, it is empty without the attribute, and
\* the selector .a matches an element whose class attribute is "a\tb".
C9_ClassesSplitOnWhitespace ==
    \A c \in call, e \in elem_data :
        /\ c.fn = "classes" =>
               /\ \A m \in c.ret :
                      m # <<>> /\ \A i \in 1..Len(m) : m[i] \notin is_whitespace
               /\ AttrClass \notin DOMAIN e.attributes => c.ret = {}
        /\ (/\ c.fn = "matches"
            /\ c.selector = SelA
            /\ AttrClass \in DOMAIN e.attributes
            /\ e.attributes[AttrClass] \in
                   {<<"a", "\t", "b">>, <<"a", " ", " ", "b">>}) => c.ret

\* The indices of the rules of sheet with a selector that matches e.
EligibleRules(e, sheet) ==
    {i \in 1..Len(sheet.rules) :
        \E k \in 1..Len(sheet.rules[i].selectors) :
            matches(e, sheet.rules[i].selectors[k])}

\* C10: matching_rules returns one entry for each rule with a selector that
\* matches elem and none for any other rule, in the order of the rules in
\* the stylesheet.
C10_MatchingRulesInOrder ==
    \A c \in call, e \in elem_data, sheet \in stylesheet :
        c.fn = "matching_rules" =>
            /\ {c.ret[n].rule : n \in 1..Len(c.ret)} = EligibleRules(e, sheet)
            /\ \A m, n \in 1..Len(c.ret) :
                   m < n => c.ret[m].rule < c.ret[n].rule

\* matching_rules has returned two entries or more and has left a rule out.
C10_Witness ==
    \E c \in call, sheet \in stylesheet :
        /\ c.fn = "matching_rules"
        /\ Len(c.ret) >= 2
        /\ Len(c.ret) < Len(sheet.rules)

====
